---- MODULE Spec2Model ----
(***************************************************************************)
(* Model of libvirtnbdbackup's transport and output layer:                 *)
(*   sshutil.Client        remote execution / file transfer over ssh       *)
(*   outputHelper.Directory, outputHelper.Zip   backup output sinks        *)
(* Every call of a method is one atomic action; the environment (remote    *)
(* host, network link, local filesystem) is part of the state.             *)
(***************************************************************************)
EXTENDS Integers, Sequences, FiniteSets, TLC

VARIABLES
    link,       \* network link to the remote host: "up" or "down"
    remote,     \* remote filesystem: path -> <<>> (missing) or <<content>>
    localfs,    \* local filesystem seen by sftp get/put
    client,     \* the sshutil.Client object (its attributes)
    sessions,   \* every SSHClient ever created by connect(): "open"/"closed"
    channels,   \* every SFTP sub-channel ever derived: [session, state]
    nConnect,   \* number of SSHClient.connect attempts
    nTransfer,  \* number of exists/copyFrom/copyTo calls that derived a channel
    nDisconnect,\* number of disconnect calls that completed
    lastCall,   \* what the most recent Client call did and how it ended
    fs,         \* local filesystem the sinks write to: path -> node
    sink,       \* the outputHelper.Directory / outputHelper.Zip object
    handles,    \* every file object / zip member stream a sink has opened
    archive,    \* the ZipFile container behind a Zip sink
    lastSink    \* what the most recent sink call did and how it ended

clientVars == <<link, remote, localfs, client, sessions, channels,
                nConnect, nTransfer, nDisconnect, lastCall>>

sinkVars == <<fs, sink, handles, archive, lastSink>>

vars == <<clientVars, sinkVars>>

----------------------------------------------------------------------------
(* Bounds                                                                   *)

\* longest raw byte string held by a remote or local file
MaxLen == 2
\* most entries opened through one sink
MaxHandles == 2
\* most bytes written through one sink, all entries together
MaxData == 2
\* most SFTP sub-channels derived during one client's lifetime
MaxChannels == 4
\* deepest directory path a Directory sink is pointed at
MaxDepth == 3

(* Python values *)

\* Optional values: None is the empty tuple, a present value x is <<x>>
None == <<>>
Some(x) == <<x>>

Chars == {"7", " "}
Raw == UNION {[1..n -> Chars] : n \in 0..MaxLen}

IsSpace(c) == c = " "

RECURSIVE LStrip(_)
LStrip(s) ==
    IF s = <<>> THEN <<>>
    ELSE IF IsSpace(Head(s)) THEN LStrip(Tail(s)) ELSE s

RECURSIVE RStrip(_)
RStrip(s) ==
    IF s = <<>> THEN <<>>
    ELSE IF IsSpace(s[Len(s)]) THEN RStrip(SubSeq(s, 1, Len(s) - 1)) ELSE s

\* bytes.strip().decode(): leading and trailing whitespace removed
StripKeepsBlanks(s) == s
Strip(s) == RStrip(LStrip(s))

\* truth value of an optional str argument: None and "" are both false
Truthy(a) == a # None /\ a[1] # ""

----------------------------------------------------------------------------
(* sshutil: environment                                                     *)

PidPath == "/tmp/x.pid"
LogPath == "/tmp/x.log"
RPaths == {PidPath, LogPath}
LPaths == {"/backup/f"}

\* a filesystem lookup; a path outside the modelled tree is missing
ReadFile(tree, p) == IF p \in DOMAIN tree THEN tree[p] ELSE None

\* raw stderr / stdout a user command may produce
Streams == {[err |-> <<>>, out |-> <<>>],
            [err |-> <<" ", "e">>, out |-> <<"o", " ">>]}
ExitCodes == {0, 1}

Cmds == {<<"true">>, <<"false">>, <<"qemu-nbd">>}

\* str() of an optional path inside an f-string
PathText(a) == IF a = None THEN "None" ELSE a[1]

\* the command text f"cat {path}"
CatCmd(path) == <<"cat", PathText(path)>>

\* what the remote shell answers to `cat <path>`: the file on stdout, or a
\* complaint on stderr and a non-zero status
CatResponse(cmd, tree) ==
    LET f == ReadFile(tree, cmd[2])
    IN  IF f # None
        THEN [ret |-> 0, err |-> <<>>, out |-> f[1]]
        ELSE [ret |-> 1, err |-> <<"e", " ">>, out |-> <<>>]

\* what the remote shell may answer to a command
CmdResponses(cmd, tree) ==
    IF cmd[1] = "cat" THEN {CatResponse(cmd, tree)}
    ELSE IF cmd = <<"true">> THEN {[ret |-> 0, err |-> <<>>, out |-> <<>>]}
    ELSE IF cmd = <<"false">> THEN {[ret |-> 1, err |-> <<>>, out |-> <<>>]}
    ELSE {[ret |-> r, err |-> s.err, out |-> s.out] : r \in ExitCodes, s \in Streams}

\* what a user command may leave behind before it exits: qemu-nbd is
\* started with --pid-file and may have written it by then
CmdWrites(cmd) ==
    IF cmd # <<"qemu-nbd">> THEN {None}
    ELSE {None} \cup {Some([path |-> PidPath, data |-> d]) : d \in Raw}

ApplyWrite(tree, w) ==
    IF w = None THEN tree ELSE [tree EXCEPT ![w[1].path] = Some(w[1].data)]

----------------------------------------------------------------------------
(* sshutil: class Mode, class Client                                        *)

ModeUPLOAD == 1
ModeDOWNLOAD == 2
Modes == {ModeUPLOAD, ModeDOWNLOAD}

\* the `mode` argument of Client.__init__: left out, or one of the modes
ModeArgs == {None} \cup {Some(m) : m \in Modes}
\* `mode: Mode = Mode.DOWNLOAD`
DefaultMode == ModeDOWNLOAD
EffectiveMode(mode) == IF mode = None THEN DefaultMode ELSE mode[1]

ConnectTimeout == 5000

NoCall ==
    [op |-> "none", a1 |-> "", a2 |-> "", cmd |-> <<>>,
     pidFile |-> None, logFile |-> None,
     outcome |-> "none", exc |-> "", msg |-> <<>>, value |-> None,
     warned |-> FALSE, execs |-> <<>>, opened |-> 0, closed |-> 0,
     timeout |-> 0, mode |-> None]

\* Client.__init__ binds self.copy before connecting
CopyBindingDownloadOnly(mode) == "copyFrom"
CopyBinding(mode) == IF mode = ModeUPLOAD THEN "copyTo" ELSE "copyFrom"

\* the message of the sshutilError raised by connect()
ConnectError(res) ==
    IF res = "auth"
    THEN <<"AuthenticationException occurred; did you remember to generate an SSH key? ", res>>
    ELSE <<"Unknown exception occured: ", res>>

ConnectResults == {"ok", "auth", "other"}

\* Client.connect: one SSHClient, one connect attempt; the new session is
\* returned when the attempt succeeds
ConnectWithRetry(res) ==
    [attempts |-> nConnect + 2,
     sessions |-> IF res = "ok" THEN sessions \o <<"closed", "open">> ELSE sessions,
     connection |-> IF res = "ok" THEN Len(sessions) + 2 ELSE 0]
Connect(res) ==
    [attempts |-> nConnect + 1,
     sessions |-> IF res = "ok" THEN Append(sessions, "open") ELSE sessions,
     connection |-> IF res = "ok" THEN Len(sessions) + 1 ELSE 0]

\* Client.__init__ (with the connect() it calls)
Construct(mode, res) ==
    /\ UNCHANGED sinkVars
    /\ client.state = "new"
    /\ nConnect' = Connect(res).attempts
    /\ sessions' = Connect(res).sessions
    /\ client' = [state |-> IF res = "ok" THEN "ready" ELSE "failed",
                  host |-> "hv", user |-> "root",
                  copy |-> CopyBinding(EffectiveMode(mode)),
                  connection |-> Connect(res).connection]
    /\ lastCall' = [NoCall EXCEPT !.op = "construct",
                        !.outcome = IF res = "ok" THEN "return" ELSE "raise",
                        !.exc = IF res = "ok" THEN "" ELSE "sshutilError",
                        !.msg = IF res = "ok" THEN <<>> ELSE ConnectError(res),
                        !.timeout = ConnectTimeout,
                        !.mode = mode]
    /\ UNCHANGED <<link, remote, localfs, channels, nTransfer, nDisconnect>>

\* whether the client's SSHClient has been closed (its transport is None)
SessionClosed == sessions[client.connection] = "closed"

\* how SFTPClient.from_transport(self.connection.get_transport()) ends
DeriveOutcome ==
    IF SessionClosed THEN "AttributeError"
    ELSE IF link = "down" THEN "SSHException"
    ELSE "ok"

\* the sub-channel list after n successful accesses of the sftp property
DerivedCached(chs, n) ==
    IF chs # <<>> THEN chs
    ELSE [i \in 1..n |-> [session |-> client.connection, state |-> "open"]]
Derived(chs, n) ==
    chs \o [i \in 1..n |-> [session |-> client.connection, state |-> "open"]]

----------------------------------------------------------------------------
(* Client._execute, Client.run                                              *)

\* Client._execute: exit status, stripped stderr, stripped stdout
Execute(cmd, resp, tag) ==
    [cmd |-> cmd, tag |-> tag, raw |-> resp, ret |-> resp.ret,
     err |-> Strip(resp.err), out |-> Strip(resp.out)]

\* `_, _, x = self._execute(f"cat {path}")`: of the three values the fetch
\* returns, only its stdout is kept
FetchOutputChecked(e) == IF e.ret # 0 THEN e.err ELSE e.out
FetchOutput(e) == e.out

\* the test `if ret != 0`
RunFailsNever(ret) == FALSE
RunFails(ret) == ret # 0

\* the test `if pidFile`
PidWantedAlways(pidFile) == TRUE
PidWanted(pidFile) == Truthy(pidFile)

\* the test `if logFile`
LogWanted(logFile) == Truthy(logFile)

\* f"Error during remote command: [{cmd}]: [{err}]"
ErrorMessage(cmd, err) ==
    <<"Error during remote command: [", cmd, "]: [", err, "]">>

\* processInfo(pid, logFile, err, out)
ProcessInfo(pid, logFile, err, out) ==
    [pid |-> pid, logFile |-> logFile, err |-> err, out |-> out]

\* the body of Client.run once the command has answered `resp`; `tree` is
\* the remote filesystem the command left behind
RunCall(cmd, pidFile, logFile, resp, tree) ==
    LET first == Execute(cmd, resp, "cmd")
        logFetch == Execute(CatCmd(logFile),
                            CatResponse(CatCmd(logFile), tree), "log")
        pidFetch == Execute(CatCmd(pidFile),
                            CatResponse(CatCmd(pidFile), tree), "pid")
        base == [NoCall EXCEPT !.op = "run", !.cmd = cmd,
                               !.pidFile = pidFile, !.logFile = logFile]
    IN  IF RunFails(first.ret)
        THEN LET err == IF LogWanted(logFile) THEN FetchOutput(logFetch) ELSE first.err
             IN  [base EXCEPT
                    !.outcome = "raise", !.exc = "sshutilError",
                    !.msg = ErrorMessage(cmd, err),
                    !.execs = IF LogWanted(logFile)
                              THEN <<first, logFetch>> ELSE <<first>>]
        ELSE LET pid == IF PidWanted(pidFile) THEN Some(FetchOutput(pidFetch)) ELSE None
             IN  [base EXCEPT
                    !.outcome = "return",
                    !.value = Some(ProcessInfo(pid, logFile, first.err, first.out)),
                    !.execs = IF PidWanted(pidFile)
                              THEN <<first, pidFetch>> ELSE <<first>>]

\* a call that ends in an exception the method does not handle
Raised(op, exc) == [NoCall EXCEPT !.op = op, !.outcome = "raise", !.exc = exc]

PidArgs == {None, Some(""), Some(PidPath)}
LogArgs == {None, Some(""), Some(LogPath)}

\* Client.run
Run(cmd, pidFile, logFile) ==
    /\ UNCHANGED sinkVars
    /\ client.state = "ready"
    /\ IF DeriveOutcome # "ok"
       THEN /\ lastCall' = [Raised("run", DeriveOutcome) EXCEPT !.cmd = cmd,
                                !.pidFile = pidFile, !.logFile = logFile]
            /\ UNCHANGED remote
       ELSE \E resp \in CmdResponses(cmd, remote), w \in CmdWrites(cmd) :
            /\ remote' = ApplyWrite(remote, w)
            /\ lastCall' = RunCall(cmd, pidFile, logFile, resp, remote')
    /\ UNCHANGED <<link, localfs, client, sessions, channels,
                   nConnect, nTransfer, nDisconnect>>

----------------------------------------------------------------------------
(* Client.exists, Client.copyFrom, Client.copyTo, Client.copy               *)

\* exception classes the handler `except IOError` catches
IOErrors == {"IOError"}
\* exception classes the handler `except SSHException` catches
SSHExceptions == {"SSHException"}

\* how sftp.stat(filepath) ends on a derived sub-channel
StatOutcome(path) == IF ReadFile(remote, path) # None THEN "ok" ELSE "IOError"

\* Client.exists
Exists(path) ==
    /\ UNCHANGED sinkVars
    /\ client.state = "ready"
    /\ Len(channels) < MaxChannels
    /\ LET d == DeriveOutcome
           e == IF d # "ok" THEN d ELSE StatOutcome(path)
           base == [NoCall EXCEPT !.op = "exists", !.a1 = path,
                                  !.opened = IF d = "ok" THEN 1 ELSE 0]
       IN  /\ channels' = Derived(channels, base.opened)
           /\ nTransfer' = nTransfer + base.opened
           /\ lastCall' =
                IF e = "ok"
                THEN [base EXCEPT !.outcome = "return", !.value = Some(TRUE)]
                ELSE IF e \in IOErrors
                THEN [base EXCEPT !.outcome = "return", !.value = Some(FALSE)]
                ELSE [base EXCEPT !.outcome = "raise", !.exc = e]
    /\ UNCHANGED <<link, remote, localfs, client, sessions, nConnect, nDisconnect>>

\* how sftp.get(filepath, localpath) ends: the local file is opened for
\* writing first, then the remote file is read into it
GetOutcome(rpath, lpath) ==
    IF lpath \notin DOMAIN localfs THEN "IOError"
    ELSE IF ReadFile(remote, rpath) = None THEN "IOError"
    ELSE "ok"

GetEffect(rpath, lpath) ==
    IF lpath \notin DOMAIN localfs THEN localfs
    ELSE IF ReadFile(remote, rpath) = None
    THEN [localfs EXCEPT ![lpath] = Some(<<>>)]
    ELSE [localfs EXCEPT ![lpath] = remote[rpath]]

\* how sftp.put(localpath, remotepath) ends
PutOutcome(lpath, rpath) ==
    IF ReadFile(localfs, lpath) = None THEN "IOError"
    ELSE IF rpath \notin DOMAIN remote THEN "IOError"
    ELSE "ok"

PutEffect(lpath, rpath) ==
    IF PutOutcome(lpath, rpath) = "ok"
    THEN [remote EXCEPT ![rpath] = localfs[lpath]]
    ELSE remote

\* the try/except of copyFrom and copyTo around a transfer that ended `e`
TransferResult(base, e) ==
    IF e = "ok" THEN [base EXCEPT !.outcome = "return"]
    ELSE IF e \in SSHExceptions
    THEN [base EXCEPT !.outcome = "return", !.warned = TRUE]
    ELSE [base EXCEPT !.outcome = "raise", !.exc = e]

\* Client.copyFrom
CopyFrom(filepath, localpath) ==
    /\ UNCHANGED sinkVars
    /\ client.state = "ready"
    /\ Len(channels) < MaxChannels
    /\ LET d == DeriveOutcome
           e == IF d # "ok" THEN d ELSE GetOutcome(filepath, localpath)
           base == [NoCall EXCEPT !.op = "copyFrom", !.a1 = filepath,
                                  !.a2 = localpath,
                                  !.opened = IF d = "ok" THEN 1 ELSE 0]
       IN  /\ channels' = Derived(channels, base.opened)
           /\ nTransfer' = nTransfer + base.opened
           /\ localfs' = IF d = "ok" THEN GetEffect(filepath, localpath)
                         ELSE localfs
           /\ lastCall' = TransferResult(base, e)
    /\ UNCHANGED <<link, remote, client, sessions, nConnect, nDisconnect>>

\* Client.copyTo
CopyTo(localpath, remotepath) ==
    /\ UNCHANGED sinkVars
    /\ client.state = "ready"
    /\ Len(channels) < MaxChannels
    /\ LET d == DeriveOutcome
           e == IF d # "ok" THEN d ELSE PutOutcome(localpath, remotepath)
           base == [NoCall EXCEPT !.op = "copyTo", !.a1 = localpath,
                                  !.a2 = remotepath,
                                  !.opened = IF d = "ok" THEN 1 ELSE 0]
       IN  /\ channels' = Derived(channels, base.opened)
           /\ nTransfer' = nTransfer + base.opened
           /\ remote' = IF d = "ok" THEN PutEffect(localpath, remotepath)
                        ELSE remote
           /\ lastCall' = TransferResult(base, e)
    /\ UNCHANGED <<link, localfs, client, sessions, nConnect, nDisconnect>>

\* Client.copy: the method bound in __init__
Copy(src, dst) ==
    IF client.copy = "copyTo" THEN CopyTo(src, dst) ELSE CopyFrom(src, dst)

----------------------------------------------------------------------------
(* Client.disconnect                                                        *)

\* SSHClient.close(): the transport goes down and takes its channels along
CloseSession(chs, c) ==
    [i \in 1..Len(chs) |->
        IF chs[i].session = c THEN [chs[i] EXCEPT !.state = "closed"] ELSE chs[i]]

\* SFTPClient.close() on the sub-channel at position i
CloseChannel(chs, i) == [chs EXCEPT ![i].state = "closed"]

\* number of accesses of the sftp property made by disconnect():
\* one for the test `if self.sftp`, one for `self.sftp.close()`
DisconnectDerives == 2

\* Client.disconnect
Disconnect ==
    /\ UNCHANGED sinkVars
    /\ client.state = "ready"
    /\ Len(channels) + DisconnectDerives <= MaxChannels
    /\ LET d == DeriveOutcome
           base == [NoCall EXCEPT !.op = "disconnect"]
       IN  IF d # "ok"
           THEN /\ lastCall' = [base EXCEPT !.outcome = "raise", !.exc = d]
                /\ UNCHANGED <<channels, sessions, nDisconnect>>
           ELSE LET opened == Derived(channels, DisconnectDerives)
                    one == CloseChannel(opened, Len(opened))
                IN  /\ channels' = CloseSession(one, client.connection)
                    /\ sessions' = [sessions EXCEPT ![client.connection] = "closed"]
                    /\ nDisconnect' = nDisconnect + 1
                    /\ lastCall' = [base EXCEPT !.outcome = "return",
                                       !.opened = DisconnectDerives,
                                       !.closed = 1]
    /\ UNCHANGED <<link, remote, localfs, client, nConnect, nTransfer>>

\* the network between the two hosts goes away
LinkFails ==
    /\ UNCHANGED sinkVars
    /\ link = "up"
    /\ client.state = "ready"
    /\ link' = "down"
    /\ UNCHANGED <<remote, localfs, client, sessions, channels,
                   nConnect, nTransfer, nDisconnect, lastCall>>

----------------------------------------------------------------------------
(* The remote execution client and its environment                          *)

\* no sink has been constructed
SinkIdle ==
    /\ fs = <<>>
    /\ sink = [kind |-> "none", targetDir |-> None, handle |-> 0]
    /\ handles = <<>>
    /\ archive = [fp |-> "none", writing |-> FALSE, members |-> <<>>]
    /\ lastSink = [op |-> "none"]

ClientInit ==
    /\ SinkIdle
    /\ link = "up"
    /\ remote \in {[p \in RPaths |-> None],
                   [p \in RPaths |-> IF p = LogPath THEN Some(<<"l", " ">>) ELSE None]}
    /\ localfs \in {[p \in LPaths |-> None], [p \in LPaths |-> Some(<<"f">>)]}
    /\ client = [state |-> "new", host |-> "hv", user |-> "root",
                 copy |-> "", connection |-> 0]
    /\ sessions = <<>>
    /\ channels = <<>>
    /\ nConnect = 0
    /\ nTransfer = 0
    /\ nDisconnect = 0
    /\ lastCall = NoCall

\* every operation, with run limited to commands that write no files
ClientNext ==
    \/ \E mode \in ModeArgs, res \in ConnectResults : Construct(mode, res)
    \/ \E cmd \in {<<"true">>, <<"false">>}, pidFile \in PidArgs, logFile \in LogArgs :
            Run(cmd, pidFile, logFile)
    \/ \E path \in RPaths \cup {"/nonexistent"} : Exists(path)
    \/ \E r \in RPaths, l \in LPaths : CopyFrom(r, l)
    \/ \E l \in LPaths, r \in RPaths : CopyTo(l, r)
    \/ \E src \in RPaths \cup LPaths, dst \in RPaths \cup LPaths : Copy(src, dst)
    \/ Disconnect
    \/ LinkFails

ClientSpec == ClientInit /\ [][ClientNext]_vars

\* command execution in full: every command, answer and pid-file write
RunNext ==
    \/ \E mode \in ModeArgs, res \in ConnectResults : Construct(mode, res)
    \/ \E cmd \in Cmds, pidFile \in PidArgs, logFile \in LogArgs :
            Run(cmd, pidFile, logFile)
    \/ Disconnect
    \/ LinkFails

RunSpec == ClientInit /\ [][RunNext]_vars

----------------------------------------------------------------------------
(* Properties of Client.run                                                 *)

\* t is s without its leading and trailing whitespace
IsTrimOf(t, s) ==
    \E i \in 1..(Len(s) + 1), j \in 0..Len(s) :
        /\ t = SubSeq(s, i, j)
        /\ \A k \in 1..(i - 1) : IsSpace(s[k])
        /\ \A k \in (j + 1)..Len(s) : IsSpace(s[k])
        /\ t # <<>> => ~IsSpace(t[1]) /\ ~IsSpace(t[Len(t)])

\* the last call was a run whose command was executed
RanCommand == lastCall.op = "run" /\ lastCall.execs # <<>>

\* the trimmed contents of the remote file an optional path names, "" when
\* there is no such file
FetchedText(path, t) ==
    IF ReadFile(remote, path[1]) = None THEN t = <<>>
    ELSE IsTrimOf(t, remote[path[1]][1])

\* C1: whenever the remote command's exit status is non-zero, run raises the
\* remote-command error and returns no ProcessResult; the error carries the
\* command text and the command's captured (trimmed) stderr; when a logFile
\* path was supplied, exactly one further execution `cat <logFile>` follows
\* the command and the (trimmed) contents of the log file take the place of
\* the captured stderr in the error.
C1_NonZeroExitRaises ==
    (RanCommand /\ lastCall.execs[1].ret # 0) =>
        /\ lastCall.outcome = "raise"
        /\ lastCall.exc = "sshutilError"
        /\ lastCall.value = None
        /\ lastCall.execs[1].cmd = lastCall.cmd
        /\ IsTrimOf(lastCall.execs[1].err, lastCall.execs[1].raw.err)
        /\ Len(lastCall.msg) = 5
        /\ lastCall.msg[2] = lastCall.cmd
        /\ IF Truthy(lastCall.logFile)
           THEN /\ Len(lastCall.execs) = 2
                /\ lastCall.execs[2].cmd = <<"cat", lastCall.logFile[1]>>
                /\ FetchedText(lastCall.logFile, lastCall.msg[4])
           ELSE /\ Len(lastCall.execs) = 1
                /\ lastCall.msg[4] = lastCall.execs[1].err

\* C1 witness: a failed command with stderr output and a log file on the
\* remote host, whose contents ended up in the error
C1_Witness ==
    /\ RanCommand
    /\ lastCall.execs[1].ret # 0
    /\ lastCall.execs[1].err = <<"e">>
    /\ Truthy(lastCall.logFile)
    /\ lastCall.outcome = "raise"
    /\ lastCall.msg[4] = <<"l">>

\* C2: when the command exits with status 0 and the remote file pidFile
\* exists, run returns a ProcessResult whose pid is the whitespace-trimmed
\* contents of that file, fetched by a second execution `cat <pidFile>` that
\* follows the command; stderr and stdout of the result are those of the
\* command itself.
C2_PidFromPidFile ==
    (/\ RanCommand
     /\ lastCall.execs[1].ret = 0
     /\ Truthy(lastCall.pidFile)
     /\ ReadFile(remote, lastCall.pidFile[1]) # None) =>
        /\ lastCall.outcome = "return"
        /\ Len(lastCall.execs) = 2
        /\ lastCall.execs[1].cmd = lastCall.cmd
        /\ lastCall.execs[2].cmd = <<"cat", lastCall.pidFile[1]>>
        /\ lastCall.value[1].pid # None
        /\ IsTrimOf(lastCall.value[1].pid[1], remote[lastCall.pidFile[1]][1])
        /\ IsTrimOf(lastCall.value[1].err, lastCall.execs[1].raw.err)
        /\ IsTrimOf(lastCall.value[1].out, lastCall.execs[1].raw.out)

\* C2 witness: the pid file holds "7 " and the command printed to both
\* streams; the result carries pid "7" and the command's own output
C2_Witness ==
    /\ RanCommand
    /\ lastCall.outcome = "return"
    /\ lastCall.pidFile = Some(PidPath)
    /\ remote[PidPath] = Some(<<"7", " ">>)
    /\ lastCall.value[1].pid = Some(<<"7">>)
    /\ lastCall.value[1].err = <<"e">>
    /\ lastCall.value[1].out = <<"o">>

\* C3: pid is populated only when pidFile was supplied: a run without pidFile
\* that returns has pid None and issued exactly one execution; a run whose
\* command exits non-zero never executes the pid-file fetch; no run issues
\* more than two executions, the command and at most one `cat`.
C3_PidOnlyWithPidFile ==
    RanCommand =>
        /\ Len(lastCall.execs) <= 2
        /\ lastCall.execs[1].cmd = lastCall.cmd
        /\ \A i \in 2..Len(lastCall.execs) : lastCall.execs[i].cmd[1] = "cat"
        /\ (lastCall.outcome = "return" /\ ~Truthy(lastCall.pidFile)) =>
                /\ lastCall.value[1].pid = None
                /\ Len(lastCall.execs) = 1
        /\ (lastCall.outcome = "return" /\ lastCall.value[1].pid # None) =>
                Truthy(lastCall.pidFile)
        /\ lastCall.execs[1].ret # 0 =>
                \A i \in 2..Len(lastCall.execs) :
                    /\ lastCall.execs[i].tag # "pid"
                    /\ lastCall.execs[i].cmd # CatCmd(lastCall.pidFile)

\* C3 witness: a successful run without pidFile, and with a logFile that is
\* not fetched
C3_Witness ==
    /\ RanCommand
    /\ lastCall.outcome = "return"
    /\ lastCall.pidFile = None
    /\ lastCall.logFile = Some(LogPath)
    /\ lastCall.value[1].pid = None
    /\ Len(lastCall.execs) = 1

----------------------------------------------------------------------------
(* Properties of the file-transfer calls and of the session                 *)

\* C4: copyFrom and copyTo never raise on a transfer failure: whatever goes
\* wrong (secure-shell error, missing remote or local file, other I/O error,
\* sub-channel that cannot be derived), the call returns normally, with no
\* error and no status.
C4_CopyNeverRaises ==
    (lastCall.op \in {"copyFrom", "copyTo"} /\ nDisconnect = 0) =>
        /\ lastCall.outcome = "return"
        /\ lastCall.value = None

\* C5: exists always returns a boolean and never raises: true when the path
\* can be stat-ed, false in every other case, a broken session included.
C5_ExistsNeverRaises ==
    (lastCall.op = "exists" /\ nDisconnect = 0) =>
        /\ lastCall.outcome = "return"
        /\ lastCall.value = Some(ReadFile(remote, lastCall.a1) # None /\ link = "up")

\* C6: after disconnect no sub-channel derived by the client and no session
\* is open; when no sub-channel was ever opened before, disconnect completes
\* without error and opens nothing new.
C6_DisconnectClosesWithoutOpening ==
    lastCall.op = "disconnect" =>
        /\ \A i \in 1..Len(channels) : channels[i].state = "closed"
        /\ \A i \in 1..Len(sessions) : sessions[i] = "closed"
        /\ Len(channels) = lastCall.opened =>
                /\ lastCall.outcome = "return"
                /\ lastCall.opened = 0

\* C7: a session is established exactly once, at construction: at all times
\* at most one connect attempt was made and at most one session exists; a
\* constructed client refers to the session made at construction, which is
\* open until the first completed disconnect and closed for ever after
\* (Unconnected -> Connected -> Disconnected, Disconnected terminal).
C7_SessionEstablishedOnce ==
    /\ nConnect <= 1
    /\ Len(sessions) <= 1
    /\ client.state = "new" => nConnect = 0 /\ sessions = <<>>
    /\ client.state = "failed" => nConnect = 1 /\ sessions = <<>>
    /\ client.state = "ready" =>
            /\ nConnect = 1
            /\ client.connection = 1
            /\ sessions = IF nDisconnect = 0 THEN <<"open">> ELSE <<"closed">>

\* C7 witness: after a disconnect, a run (which fails) has not reconnected
C7_Witness ==
    /\ lastCall.op = "run"
    /\ lastCall.outcome = "raise"
    /\ nDisconnect = 1
    /\ nTransfer > 0
    /\ nConnect = 1
    /\ sessions = <<"closed">>

----------------------------------------------------------------------------
(* outputhelper: the local filesystem                                       *)

\* A path is a tuple of components; <<>> is the working directory.
NoNode == [kind |-> "none", data |-> <<>>]
DirNode == [kind |-> "dir", data |-> <<>>]
FileNode(d) == [kind |-> "file", data |-> d]

Parent(p) == SubSeq(p, 1, Len(p) - 1)

NodeAt(tree, p) ==
    IF p = <<>> THEN DirNode
    ELSE IF p \in DOMAIN tree THEN tree[p] ELSE NoNode

\* os.path.exists
PathExists(tree, p) == NodeAt(tree, p).kind # "none"

\* os.path.isdir
IsDir(tree, p) == NodeAt(tree, p).kind = "dir"

\* os.mkdir(p): "" when the directory was made, else the OSError raised;
\* `denied` are the paths the process may not create
MkdirError(tree, p, denied) ==
    IF PathExists(tree, p) THEN "FileExistsError"
    ELSE IF ~PathExists(tree, Parent(p)) THEN "FileNotFoundError"
    ELSE IF ~IsDir(tree, Parent(p)) THEN "NotADirectoryError"
    ELSE IF p \in denied \/ p \notin DOMAIN tree THEN "PermissionError"
    ELSE ""

\* os.makedirs(p): the missing parents first, then the leaf
RECURSIVE Makedirs(_, _, _)
Makedirs(tree, p, denied) ==
    LET head == Parent(p)
        up == IF head # <<>> /\ ~PathExists(tree, head)
              THEN Makedirs(tree, head, denied)
              ELSE [tree |-> tree, err |-> ""]
    IN  IF up.err \notin {"", "FileExistsError"} THEN up
        ELSE LET e == MkdirError(up.tree, p, denied)
             IN  [tree |-> IF e = "" THEN [up.tree EXCEPT ![p] = DirNode]
                           ELSE up.tree,
                  err |-> e]

----------------------------------------------------------------------------
(* outputHelper.Directory.__init__, _makeDir                                *)

NoSinkCall ==
    [op |-> "none", arg |-> <<>>, outcome |-> "none", exc |-> "",
     msg |-> "", value |-> None, before |-> <<>>, denied |-> {}]

NoSink == [kind |-> "none", targetDir |-> None, handle |-> 0]

\* the test `os.path.exists(targetDir)` and `not os.path.isdir(targetDir)`
TargetIsFileNever(tree, targetDir) == FALSE
TargetIsFile(tree, targetDir) ==
    PathExists(tree, targetDir) /\ ~IsDir(tree, targetDir)

\* Directory._makeDir: the tree afterwards and the exception raised, if any
MakeDir(tree, targetDir, denied) ==
    IF TargetIsFile(tree, targetDir)
    THEN [tree |-> tree, exc |-> "OutputCreateDirectory",
          msg |-> "Specified target is a file, not a directory"]
    ELSE IF ~PathExists(tree, targetDir)
    THEN LET made == Makedirs(tree, targetDir, denied)
         IN  IF made.err # ""
             THEN [tree |-> made.tree, exc |-> "OutputCreateDirectory",
                   msg |-> "Cant create target directory:"]
             ELSE [tree |-> made.tree, exc |-> "", msg |-> ""]
    ELSE [tree |-> tree, exc |-> "", msg |-> ""]

\* Directory.__init__(targetDir); targetDir is optional
ConstructDirectory(targetDir, denied) ==
    LET r == IF targetDir # None THEN MakeDir(fs, targetDir[1], denied)
             ELSE [tree |-> fs, exc |-> "", msg |-> ""]
    IN  /\ UNCHANGED clientVars
        /\ fs' = r.tree
        /\ sink' = IF r.exc = ""
                   THEN [kind |-> "Directory", targetDir |-> targetDir, handle |-> 0]
                   ELSE NoSink
        /\ handles' = <<>>
        /\ lastSink' = [NoSinkCall EXCEPT !.op = "Directory", !.arg = targetDir,
                            !.outcome = IF r.exc = "" THEN "return" ELSE "raise",
                            !.exc = r.exc, !.msg = r.msg, !.before = fs,
                            !.denied = denied]
        /\ UNCHANGED archive

\* the directory paths of the model: d, d/d, d/d/d, ...
ChainPaths == {[i \in 1..n |-> "d"] : n \in 1..MaxDepth}

\* a tree is well formed when every node that exists lies in a directory
WellFormed(tree) ==
    \A p \in DOMAIN tree : PathExists(tree, p) => IsDir(tree, Parent(p))

\* no client has been constructed
ClientIdle ==
    /\ link = "up"
    /\ remote = [p \in RPaths |-> None]
    /\ localfs = [p \in LPaths |-> None]
    /\ client = [state |-> "new", host |-> "hv", user |-> "root",
                 copy |-> "", connection |-> 0]
    /\ sessions = <<>>
    /\ channels = <<>>
    /\ nConnect = 0
    /\ nTransfer = 0
    /\ nDisconnect = 0
    /\ lastCall = NoCall

MakeDirInit ==
    /\ ClientIdle
    /\ fs \in {t \in [ChainPaths -> {NoNode, DirNode, FileNode(<<>>)}] : WellFormed(t)}
    /\ sink = NoSink
    /\ handles = <<>>
    /\ archive = [fp |-> "none", writing |-> FALSE, members |-> <<>>]
    /\ lastSink = NoSinkCall

MakeDirNext ==
    \E targetDir \in {None} \cup {Some(p) : p \in ChainPaths},
       denied \in {{}} \cup {{p} : p \in ChainPaths} :
        ConstructDirectory(targetDir, denied)

MakeDirSpec == MakeDirInit /\ [][MakeDirNext]_vars

----------------------------------------------------------------------------
(* outputHelper.Directory: open, write, flush, close                        *)

Bytes == {"x", "y"}
\* the data blocks a caller hands to write()
Chunks == {<<>>, <<"x">>, <<"y">>, <<"x", "y">>}

\* the byte read back from a hole left by a write beyond the end of a file
Hole == "0"

Max(a, b) == IF a >= b THEN a ELSE b

\* file contents d after bytes b are written at offset pos
Overwrite(d, pos, b) ==
    [i \in 1..Max(Len(d), pos + Len(b)) |->
        IF i > pos /\ i <= pos + Len(b) THEN b[i - pos]
        ELSE IF i <= Len(d) THEN d[i] ELSE Hole]

\* a file object as returned by open(path, "wb"), or a zip member stream
NewHandle(path, member) ==
    [path |-> path, state |-> "open", buf |-> <<>>, pos |-> 0,
     written |-> <<>>, overlap |-> FALSE, member |-> member]

\* the buffered bytes of file object h reach the file
FlushedTree(tree, h) ==
    IF h.buf = <<>> THEN tree
    ELSE [tree EXCEPT ![h.path] =
            FileNode(Overwrite(NodeAt(tree, h.path).data, h.pos, h.buf))]

FlushedHandle(h) == [h EXCEPT !.buf = <<>>, !.pos = h.pos + Len(h.buf)]

\* file.close(): flush, then release the descriptor
ClosedTreeNoFlush(tree, h) == tree
ClosedTree(tree, h) == FlushedTree(tree, h)

ClosedHandleStillOpen(h) == [h EXCEPT !.buf = <<>>]
ClosedHandle(h) == [h EXCEPT !.buf = <<>>, !.state = "closed"]

\* how open(targetFile, "wb") ends: "" or the OSError raised
OpenError(tree, p, denied) ==
    IF ~IsDir(tree, Parent(p)) THEN "FileNotFoundError"
    ELSE IF IsDir(tree, p) THEN "IsADirectoryError"
    ELSE IF denied \/ p \notin DOMAIN tree THEN "PermissionError"
    ELSE ""

\* the path Directory.open hands to open()
OpenPath(targetDir, targetFile) == targetFile

\* the current handle of the sink, when it has one
HasHandle == sink.handle # 0
Current == handles[sink.handle]

\* bytes accepted so far by all the handles of the sink
RECURSIVE SumWritten(_)
SumWritten(hs) ==
    IF hs = <<>> THEN 0 ELSE Len(Head(hs).written) + SumWritten(Tail(hs))
TotalWritten == SumWritten(handles)

SinkRaised(op, arg, exc) ==
    [NoSinkCall EXCEPT !.op = op, !.arg = arg, !.outcome = "raise", !.exc = exc]

SinkReturned(op, arg, value) ==
    [NoSinkCall EXCEPT !.op = op, !.arg = arg, !.outcome = "return", !.value = value]

\* Directory.open(targetFile); `kept` tells whether the caller still holds
\* the file object of the previous open when self.fileHandle is rebound
DirOpen(targetFile, kept, denied) ==
    /\ UNCHANGED clientVars
    /\ sink.kind = "Directory"
    /\ Len(handles) < MaxHandles
    /\ LET path == OpenPath(sink.targetDir, targetFile)
           e == OpenError(fs, path, denied)
       IN  IF e # ""
           THEN /\ lastSink' = SinkRaised("open", targetFile, "OutputOpenException")
                /\ UNCHANGED <<fs, sink, handles, archive>>
           ELSE LET truncated == [fs EXCEPT ![path] = FileNode(<<>>)]
                    stillOpen == HasHandle /\ Current.state = "open"
                    old == IF ~stillOpen THEN handles
                           ELSE IF kept
                           THEN [handles EXCEPT ![sink.handle].overlap = TRUE]
                           ELSE [handles EXCEPT ![sink.handle] =
                                    [ClosedHandle(Current) EXCEPT !.overlap = TRUE]]
                IN  /\ fs' = IF stillOpen /\ ~kept
                             THEN ClosedTree(truncated, Current)
                             ELSE truncated
                    /\ handles' = Append(old, NewHandle(path, 0))
                    /\ sink' = [sink EXCEPT !.handle = Len(handles) + 1]
                    /\ lastSink' = SinkReturned("open", targetFile,
                                                Some(Len(handles) + 1))
                    /\ UNCHANGED archive

\* Directory.write(data); `spill` tells whether the buffered writer passes
\* its buffer on to the file during this call
DirWrite(data, spill) ==
    /\ UNCHANGED clientVars
    /\ sink.kind = "Directory"
    /\ IF ~HasHandle
       THEN /\ lastSink' = SinkRaised("write", data, "AttributeError")
            /\ UNCHANGED <<fs, handles>>
       ELSE IF Current.state = "closed"
       THEN /\ lastSink' = SinkRaised("write", data, "ValueError")
            /\ UNCHANGED <<fs, handles>>
       ELSE /\ TotalWritten + Len(data) <= MaxData
            /\ LET h == [Current EXCEPT !.buf = Current.buf \o data,
                                        !.written = Current.written \o data]
               IN  /\ fs' = IF spill THEN FlushedTree(fs, h) ELSE fs
                   /\ handles' = [handles EXCEPT ![sink.handle] =
                                    IF spill THEN FlushedHandle(h) ELSE h]
            /\ lastSink' = SinkReturned("write", data, Some(Len(data)))
    /\ UNCHANGED <<sink, archive>>

\* Directory.flush()
DirFlush ==
    /\ UNCHANGED clientVars
    /\ sink.kind = "Directory"
    /\ IF ~HasHandle
       THEN /\ lastSink' = SinkRaised("flush", <<>>, "AttributeError")
            /\ UNCHANGED <<fs, handles>>
       ELSE IF Current.state = "closed"
       THEN /\ lastSink' = SinkRaised("flush", <<>>, "ValueError")
            /\ UNCHANGED <<fs, handles>>
       ELSE /\ fs' = FlushedTree(fs, Current)
            /\ handles' = [handles EXCEPT ![sink.handle] = FlushedHandle(Current)]
            /\ lastSink' = SinkReturned("flush", <<>>, None)
    /\ UNCHANGED <<sink, archive>>

\* Directory.close()
DirClose ==
    /\ UNCHANGED clientVars
    /\ sink.kind = "Directory"
    /\ IF ~HasHandle
       THEN /\ lastSink' = SinkRaised("close", <<>>, "AttributeError")
            /\ UNCHANGED <<fs, handles>>
       ELSE /\ fs' = IF Current.state = "open" THEN ClosedTree(fs, Current) ELSE fs
            /\ handles' = [handles EXCEPT ![sink.handle] = ClosedHandle(Current)]
            /\ lastSink' = SinkReturned("close", <<>>, None)
    /\ UNCHANGED <<sink, archive>>

----------------------------------------------------------------------------
(* outputHelper.Zip: open, write, close                                     *)

\* how ZipFile.open(zinfo, "w", force_zip64=True) ends: "" or the exception
\* raised; none of them is a zipfile.error
ZipOpenErrorNoWriteCheck(arch) ==
    IF arch.fp # "open" THEN "ValueError" ELSE ""
ZipOpenErrorContainerClosed(arch) ==
    IF arch.fp # "open" \/ (\E i \in 1..Len(arch.members) : arch.members[i].final)
    THEN "ValueError"
    ELSE IF arch.writing THEN "ValueError"
    ELSE ""
ZipOpenError(arch) ==
    IF arch.fp # "open" THEN "ValueError"
    ELSE IF arch.writing THEN "ValueError"
    ELSE ""

\* exception classes the handler `except zipfile.error` catches
ZipErrors == {"BadZipFile"}

\* Zip.open(fileName)
ZipOpen(fileName) ==
    /\ UNCHANGED clientVars
    /\ sink.kind = "Zip"
    /\ Len(handles) < MaxHandles
    /\ LET e == ZipOpenError(archive)
       IN  IF e # ""
           THEN /\ lastSink' = SinkRaised("open", fileName,
                        IF e \in ZipErrors THEN "OutputOpenException" ELSE e)
                /\ UNCHANGED <<sink, handles, archive>>
           ELSE /\ archive' = [archive EXCEPT
                        !.writing = TRUE,
                        !.members = Append(@, [name |-> fileName, data |-> <<>>,
                                               final |-> FALSE])]
                /\ handles' = Append(handles,
                                     NewHandle(fileName, Len(archive.members) + 1))
                /\ sink' = [sink EXCEPT !.handle = Len(handles) + 1]
                /\ lastSink' = SinkReturned("open", fileName, Some(Len(handles) + 1))
    /\ UNCHANGED fs

\* Zip.write(data)
ZipWrite(data) ==
    /\ UNCHANGED clientVars
    /\ sink.kind = "Zip"
    /\ IF ~HasHandle
       THEN /\ lastSink' = SinkRaised("write", data, "AttributeError")
            /\ UNCHANGED <<handles, archive>>
       ELSE IF Current.state = "closed"
       THEN /\ lastSink' = SinkRaised("write", data, "ValueError")
            /\ UNCHANGED <<handles, archive>>
       ELSE /\ TotalWritten + Len(data) <= MaxData
            /\ archive' = [archive EXCEPT !.members[Current.member].data = @ \o data]
            /\ handles' = [handles EXCEPT ![sink.handle].written = @ \o data]
            /\ lastSink' = SinkReturned("write", data, Some(Len(data)))
    /\ UNCHANGED <<fs, sink>>

\* Zip.close()
ZipClose ==
    /\ UNCHANGED clientVars
    /\ sink.kind = "Zip"
    /\ IF ~HasHandle
       THEN /\ lastSink' = SinkRaised("close", <<>>, "AttributeError")
            /\ UNCHANGED <<handles, archive>>
       ELSE IF Current.state = "closed"
       THEN /\ lastSink' = SinkReturned("close", <<>>, None)
            /\ UNCHANGED <<handles, archive>>
       ELSE /\ archive' = [archive EXCEPT !.writing = FALSE,
                                          !.members[Current.member].final = TRUE]
            /\ handles' = [handles EXCEPT ![sink.handle] = ClosedHandle(Current)]
            /\ lastSink' = SinkReturned("close", <<>>, None)
    /\ UNCHANGED <<fs, sink>>

\* flush() on a Zip sink: the class defines no such method
ZipFlush ==
    /\ UNCHANGED clientVars
    /\ sink.kind = "Zip"
    /\ lastSink' = SinkRaised("flush", <<>>, "AttributeError")
    /\ UNCHANGED <<fs, sink, handles, archive>>

----------------------------------------------------------------------------
(* A constructed sink and its callers                                       *)

TargetDir == <<"t">>
SinkPaths == {<<"a">>, <<"t", "a">>, <<"m", "a">>}

SinkInit ==
    /\ ClientIdle
    /\ fs = [p \in {<<"t">>, <<"a">>, <<"t", "a">>} |->
                IF p = TargetDir THEN DirNode ELSE NoNode]
    /\ sink \in {[kind |-> "Directory", targetDir |-> Some(TargetDir), handle |-> 0],
                 [kind |-> "Zip", targetDir |-> None, handle |-> 0]}
    /\ handles = <<>>
    /\ archive = [fp |-> IF sink.kind = "Zip" THEN "open" ELSE "none",
                  writing |-> FALSE, members |-> <<>>]
    /\ lastSink = NoSinkCall

SinkNext ==
    \/ \E targetFile \in SinkPaths, kept \in BOOLEAN, denied \in BOOLEAN :
            DirOpen(targetFile, kept, denied)
    \/ \E data \in Chunks, spill \in BOOLEAN : DirWrite(data, spill)
    \/ DirFlush
    \/ DirClose
    \/ \E fileName \in SinkPaths : ZipOpen(fileName)
    \/ \E data \in Chunks : ZipWrite(data)
    \/ ZipFlush
    \/ ZipClose

SinkSpec == SinkInit /\ [][SinkNext]_vars

----------------------------------------------------------------------------
(* Properties of the output sinks                                           *)

\* the handles that are open for writing
OpenHandles == {i \in 1..Len(handles) : handles[i].state = "open"}

\* no open was issued while the entry before it was still open
NoOverlap == \A i \in 1..Len(handles) : ~handles[i].overlap

\* C8 as stated: in every reachable state of a sink, Directory or Archive,
\* at most one entry is open for writing, also after an open issued while an
\* entry was still open.
C8_AtMostOneOpenHandle == Cardinality(OpenHandles) <= 1

\* C8 amended: an Archive sink never has more than one member open for
\* writing (an open while a member is open fails and registers nothing); a
\* Directory sink has at most one open handle as long as every entry was
\* closed before the next open.
C8_OneOpenHandleUnlessOverlapped ==
    /\ (sink.kind = "Zip" \/ NoOverlap) => Cardinality(OpenHandles) <= 1
    /\ sink.kind = "Zip" =>
            /\ NoOverlap
            /\ archive.writing <=> OpenHandles # {}
            /\ Len(archive.members) = Len(handles)

\* C8 witness: an Archive open issued while a member is open has failed and
\* the one member is still the only open entry
C8_Witness ==
    /\ sink.kind = "Zip"
    /\ lastSink.op = "open"
    /\ lastSink.outcome = "raise"
    /\ OpenHandles = {1}
    /\ Len(handles) = 1

\* C9: round trip of sink entries: while no two entries were open at the same
\* time, the content stored for each closed entry (the file of that path, as
\* long as no later entry reopened it; the archive member) is exactly the
\* concatenation of the chunks written between its open and its close, writes
\* to another entry do not alter it, and every write returns the number of
\* bytes it was given.
C9_RoundTrip ==
    /\ (lastSink.op = "write" /\ lastSink.outcome = "return") =>
            lastSink.value = Some(Len(lastSink.arg))
    /\ NoOverlap =>
        \A i \in 1..Len(handles) :
            handles[i].state = "closed" =>
                IF sink.kind = "Zip"
                THEN archive.members[handles[i].member] =
                        [name |-> handles[i].path, data |-> handles[i].written,
                         final |-> TRUE]
                ELSE (\A j \in (i + 1)..Len(handles) :
                            handles[j].path # handles[i].path) =>
                        fs[handles[i].path] = FileNode(handles[i].written)

\* C9 witness: two entries of different names written and closed one after
\* the other in a directory, each file holding what was written to it
C9_Witness ==
    /\ sink.kind = "Directory"
    /\ Len(handles) = 2
    /\ NoOverlap
    /\ handles[1].state = "closed" /\ handles[2].state = "closed"
    /\ handles[1].path # handles[2].path
    /\ handles[1].written = <<"x">> /\ handles[2].written = <<"y">>
    /\ fs[handles[1].path].data = <<"x">>
    /\ fs[handles[2].path].data = <<"y">>
    /\ lastSink.op = "close"

\* the paths from the first component of p down to p itself
Prefixes(p) == {SubSeq(p, 1, n) : n \in 1..Len(p)}

\* the last call constructed a Directory sink on a target path
MadeDirectory == lastSink.op = "Directory" /\ lastSink.arg # None

\* C10: constructing a Directory sink: if the target exists and is not a
\* directory, construction fails with the create-directory error and creates
\* nothing; if the target does not exist, the directory and all its missing
\* parents are created, and any OS-level failure of that creation is reported
\* as the create-directory error; if the target already is a directory,
\* construction succeeds and leaves the filesystem unchanged.
C10_DirectoryConstruction ==
    MadeDirectory =>
        LET t == lastSink.arg[1]
            was == lastSink.before
        IN  /\ (PathExists(was, t) /\ was[t].kind # "dir") =>
                    /\ lastSink.outcome = "raise"
                    /\ lastSink.exc = "OutputCreateDirectory"
                    /\ fs = was
            /\ (was[t].kind = "dir") =>
                    /\ lastSink.outcome = "return"
                    /\ fs = was
            /\ ~PathExists(was, t) =>
                    /\ lastSink.outcome = "return" =>
                            /\ \A p \in Prefixes(t) : fs[p].kind = "dir"
                            /\ \A p \in DOMAIN fs \ Prefixes(t) : fs[p] = was[p]
                    /\ lastSink.outcome = "raise" =>
                            /\ lastSink.exc = "OutputCreateDirectory"
                            /\ fs[t].kind = "none"
                    /\ lastSink.outcome = "raise" <=>
                            \E p \in Prefixes(t) :
                                \/ was[p].kind = "file"
                                \/ was[p].kind = "none" /\ p \in lastSink.denied
            /\ lastSink.outcome \in {"return", "raise"}
            /\ \A p \in DOMAIN fs : was[p].kind # "none" => fs[p] = was[p]

\* C10 witness: the target and its two missing parents were created
C10_Witness ==
    /\ MadeDirectory
    /\ Len(lastSink.arg[1]) >= 3
    /\ \A p \in Prefixes(lastSink.arg[1]) : lastSink.before[p].kind = "none"
    /\ \A p \in Prefixes(lastSink.arg[1]) : fs[p].kind = "dir"
    /\ lastSink.outcome = "return"

----------------------------------------------------------------------------
(* Properties of open and flush                                             *)

\* the path of a file `name` under the directory `dir`
Join(dir, name) == dir \o name

\* the last call was an open on a Directory sink
DirectoryOpened == sink.kind = "Directory" /\ lastSink.op = "open"

\* C11: Directory.open(name) opens or creates, in binary write mode with
\* truncate-on-open, the file whose path is the sink's target directory
\* joined with name, for every name and every target directory; every
\* OS-level failure of that open is reported as the open error.
C11_OpensUnderTargetDir ==
    DirectoryOpened =>
        /\ lastSink.outcome = "return" =>
                /\ Current.path = Join(sink.targetDir[1], lastSink.arg)
                /\ Current.state = "open"
                /\ fs[Current.path] = FileNode(<<>>)
        /\ lastSink.outcome = "raise" => lastSink.exc = "OutputOpenException"

\* the last call was a flush issued while the sink's entry was open
FlushedOpenEntry ==
    /\ lastSink.op = "flush"
    /\ HasHandle
    /\ Current.state = "open"

\* C12: both sink backends expose open, write, flush and close: with an
\* entry open, flush on a Directory sink and on an Archive sink completes
\* without error (the model's medium reports none), leaving nothing buffered.
C12_FlushOnBothBackends ==
    FlushedOpenEntry =>
        /\ lastSink.outcome = "return"
        /\ Current.buf = <<>>

\* the last call was an open on an Archive sink that failed
ArchiveOpenFailed ==
    sink.kind = "Zip" /\ lastSink.op = "open" /\ lastSink.outcome = "raise"

\* C13: Archive.open fails with the open error, and with no other kind of
\* error, when the container is finalized or the member cannot be
\* registered, an open while the previous member is still open for writing
\* included; a failed open registers no member.
C13_ArchiveOpenError ==
    /\ ArchiveOpenFailed => lastSink.exc = "OutputOpenException"
    /\ (sink.kind = "Zip" /\ Cardinality(OpenHandles) = 1 /\ Len(handles) = 1
            /\ lastSink.op = "open") =>
                Len(archive.members) = 1

----------------------------------------------------------------------------
(* Properties of the archive member lifecycle                               *)

\* the step is an Archive open issued while no member is open for writing
OpensAfterCompletedCycles ==
    /\ sink.kind = "Zip"
    /\ OpenHandles = {}
    /\ lastSink'.op = "open"
    /\ lastSink' # lastSink

\* C14: close finalizes the current member only and the container stays
\* open: an open issued after any number of completed open/write/close
\* cycles succeeds and registers one new, empty member under the given name
\* (a name used before included); a member that has been closed is never
\* changed again, neither by a later open nor by a write after close.
C14_MemberLifecycle ==
    [][/\ OpensAfterCompletedCycles =>
            /\ lastSink'.outcome = "return"
            /\ archive'.fp = "open"
            /\ archive'.members =
                    Append(archive.members,
                           [name |-> lastSink'.arg, data |-> <<>>, final |-> FALSE])
       /\ sink.kind = "Zip" =>
            /\ archive'.fp = archive.fp
            /\ Len(archive'.members) >= Len(archive.members)
            /\ \A i \in 1..Len(archive.members) :
                    archive.members[i].final =>
                        archive'.members[i] = archive.members[i]
            /\ \A i \in 1..Len(archive.members) :
                    archive'.members[i].name = archive.members[i].name
      ]_vars

\* C14 witness: two members of the same name were written and closed one
\* after the other, each keeps its own bytes, and a write after the second
\* close has failed
C14_Witness ==
    /\ sink.kind = "Zip"
    /\ Len(archive.members) = 2
    /\ archive.members[1].name = archive.members[2].name
    /\ archive.members[1] = [name |-> <<"a">>, data |-> <<"x">>, final |-> TRUE]
    /\ archive.members[2] = [name |-> <<"a">>, data |-> <<"y">>, final |-> TRUE]
    /\ lastSink.op = "write"
    /\ lastSink.outcome = "raise"

----------------------------------------------------------------------------
(* Properties of the construction of a client                               *)

\* the step constructs the client
Constructs == client.state = "new" /\ client'.state # "new"

\* C15: copy is bound once, at construction, from the direction: to copyTo
\* exactly when the direction is Upload, to copyFrom otherwise (Download
\* being the default when no direction is given); it is bound also when the
\* connection attempt then fails, and no later operation changes it.
C15_CopyBoundAtConstruction ==
    [][/\ Constructs =>
            /\ lastCall'.op = "construct"
            /\ client'.copy = IF lastCall'.mode = Some(ModeUPLOAD)
                              THEN "copyTo" ELSE "copyFrom"
       /\ ~Constructs => client'.copy = client.copy
      ]_vars

\* C15 witness: a client constructed for Upload still has copy bound to
\* copyTo after transfers and a disconnect
C15_Witness ==
    /\ client.copy = "copyTo"
    /\ nTransfer > 0
    /\ nDisconnect = 1
    /\ lastCall.op = "disconnect"

\* C16: the connection attempt made at construction is bounded by a timeout
\* on the order of seconds (about 5 s; the secure-shell library reads the
\* value it is handed as seconds), and a failed attempt raises the
\* connection error with one text for an authentication rejection and
\* another text for any other failure.
C16_ConnectTimeoutSeconds ==
    lastCall.op = "construct" =>
        /\ lastCall.timeout \in 1..60
        /\ lastCall.outcome = "raise" =>
                /\ lastCall.exc = "sshutilError"
                /\ Len(lastCall.msg) = 2
                /\ (lastCall.msg[1] = ConnectError("auth")[1]) <=>
                        (lastCall.msg[2] = "auth")

----------------------------------------------------------------------------
(* Properties of the side fetch of Client.run                               *)

\* the last run fetched the file `path` names, and no such file is there
FetchedMissing(path) ==
    /\ RanCommand
    /\ Truthy(path)
    /\ ReadFile(remote, path[1]) = None
    /\ Len(lastCall.execs) = 2

\* C17: exit status and stderr of the side fetch are ignored: when the
\* command exits 0, pidFile is supplied and the remote file is missing, run
\* returns a ProcessResult whose pid is the fetch's trimmed stdout, the empty
\* string and not None; when the command exits non-zero and the logFile
\* fetch fails, the error carries the fetch's empty stdout, not the command's
\* stderr; in every run the fetched text is the fetch's stdout alone.
C17_FetchStatusIgnored ==
    /\ (FetchedMissing(lastCall.pidFile) /\ lastCall.execs[1].ret = 0) =>
            /\ lastCall.execs[2].ret # 0
            /\ lastCall.execs[2].err # <<>>
            /\ lastCall.outcome = "return"
            /\ lastCall.value[1].pid = Some(<<>>)
            /\ lastCall.value[1].err = lastCall.execs[1].err
    /\ (FetchedMissing(lastCall.logFile) /\ lastCall.execs[1].ret # 0) =>
            /\ lastCall.execs[2].ret # 0
            /\ lastCall.execs[2].err # <<>>
            /\ lastCall.outcome = "raise"
            /\ lastCall.exc = "sshutilError"
            /\ lastCall.msg[4] = <<>>
    /\ (RanCommand /\ Len(lastCall.execs) = 2) =>
            IF lastCall.outcome = "return"
            THEN lastCall.value[1].pid = Some(lastCall.execs[2].out)
            ELSE lastCall.msg[4] = lastCall.execs[2].out

\* C17 witness: a command failed with text on stderr, the log file to fetch
\* is missing, and the error raised carries the empty string
C17_Witness ==
    /\ FetchedMissing(lastCall.logFile)
    /\ lastCall.execs[1].ret # 0
    /\ lastCall.execs[1].err = <<"e">>
    /\ lastCall.outcome = "raise"
    /\ lastCall.msg[4] = <<>>

----------------------------------------------------------------------------
(* Properties of the file-transfer sub-channels                             *)

TransferOps == {"exists", "copyFrom", "copyTo"}

\* the step is a call of `op` on a constructed client
CallOf(ops) ==
    /\ client.state = "ready"
    /\ lastCall'.op \in ops
    /\ link' = link

\* sub-channels derived by the step
NewChannels == Len(channels') - Len(channels)

\* sub-channels that the step closed
ClosedByStep ==
    {i \in 1..Len(channels') :
        /\ channels'[i].state = "closed"
        /\ i <= Len(channels) => channels[i].state = "open"}

\* C18: every access of the sftp property derives a new sub-channel from
\* the session, of which the client keeps no reference: an exists, copyFrom
\* or copyTo call on a usable session opens exactly one sub-channel and
\* closes none; disconnect derives two more and closes one of them itself
\* before it closes the session; the sub-channels opened so far number the
\* transfer calls plus two per completed disconnect; sub-channels are closed
\* only by the step that closes the session; an access on a session that is
\* down or closed fails and derives nothing.
C18_SubChannelPerAccess ==
    [][/\ Len(channels') = nTransfer' + 2 * nDisconnect'
       /\ \A i \in 1..Len(channels) : channels'[i].session = channels[i].session
       /\ (CallOf(TransferOps) /\ DeriveOutcome = "ok") =>
            /\ NewChannels = 1
            /\ lastCall'.opened = 1
            /\ nTransfer' = nTransfer + 1
            /\ channels'[Len(channels')] =
                    [session |-> client.connection, state |-> "open"]
            /\ ClosedByStep = {}
       /\ (CallOf({"disconnect"}) /\ DeriveOutcome = "ok") =>
            /\ NewChannels = 2
            /\ lastCall'.opened = 2
            /\ lastCall'.closed = 1
            /\ nDisconnect' = nDisconnect + 1
            /\ sessions'[client.connection] = "closed"
       /\ (client.state = "ready" /\ DeriveOutcome # "ok") =>
            /\ NewChannels = 0
            /\ nTransfer' = nTransfer
            /\ CallOf(TransferOps \cup {"disconnect"}) => lastCall'.opened = 0
       /\ ClosedByStep # {} =>
            /\ sessions[client.connection] = "open"
            /\ sessions'[client.connection] = "closed"
      ]_vars

\* C18 witness: two transfer calls and a disconnect have opened four
\* sub-channels, of which the client itself closed one
C18_Witness ==
    /\ nTransfer = 2
    /\ nDisconnect = 1
    /\ Len(channels) = 4
    /\ lastCall.op = "disconnect"
    /\ lastCall.opened = 2
    /\ lastCall.closed = 1

----------------------------------------------------------------------------
(* Properties of the sink's handle reference                                *)

EntryOps == {"write", "flush", "close"}

\* C19: the sink's reference to its entry is set by a successful open only
\* and never cleared: a failed open and every write, flush and close leave
\* it as it was; before the first open, write, flush and close fail and
\* change nothing; after close the sink still refers to the closed handle,
\* so that a later write or flush fails on that handle, a second close
\* meets that handle again, and none of them touches another entry.
C19_HandleReference ==
    [][/\ sink'.handle # sink.handle =>
            /\ lastSink'.op = "open"
            /\ lastSink'.outcome = "return"
            /\ Len(handles') = Len(handles) + 1
            /\ sink'.handle = Len(handles')
       /\ (lastSink'.op = "open" /\ lastSink'.outcome = "raise") =>
            /\ sink' = sink
            /\ handles' = handles
       /\ (~HasHandle /\ lastSink'.op \in EntryOps) =>
            /\ lastSink'.outcome = "raise"
            /\ UNCHANGED <<fs, sink, handles, archive>>
       /\ (HasHandle /\ lastSink'.op \in EntryOps) =>
            /\ sink' = sink
            /\ Len(handles') = Len(handles)
            /\ \A i \in 1..Len(handles) :
                    i # sink.handle => handles'[i] = handles[i]
       /\ (HasHandle /\ lastSink'.op = "close" /\ lastSink'.outcome = "return") =>
            handles'[sink'.handle].state = "closed"
       /\ (HasHandle /\ lastSink'.op \in EntryOps /\ Current.state = "closed") =>
            /\ UNCHANGED <<fs, sink, handles, archive>>
            /\ lastSink'.op \in {"write", "flush"} => lastSink'.outcome = "raise"
      ]_vars

\* C19 witness: after open, write and close of the only entry, a further
\* write has failed on the closed handle the sink still refers to
C19_Witness ==
    /\ Len(handles) = 1
    /\ sink.handle = 1
    /\ handles[1].state = "closed"
    /\ handles[1].written # <<>>
    /\ lastSink.op = "write"
    /\ lastSink.outcome = "raise"
    /\ lastSink.exc = "ValueError"

====
